---- MODULE Spec2Model ----
(***************************************************************************)
(* Model of app/main.py: the /summarize handler summarize_preset_file and  *)
(* the two pure functions it calls, search_relevant_text and               *)
(* extract_ev_ebitda_median.                                               *)
(*                                                                         *)
(* Text is a sequence of one-character strings.  The module is ASCII, so   *)
(* the program's Japanese literals have stand-ins: Bai is the unit suffix  *)
(* of the pattern (U+500D), MedianLabel the three-character row label      *)
(* (U+4E2D U+592E U+5024).                                                 *)
(***************************************************************************)
EXTENDS Integers, Sequences, FiniteSets, TLC

VARIABLES
    \* summarize_preset_file, one entry per request
    industry, pc, document, paragraphs, summaries, key_ix, relevant_text,
    log, replies, response,
    \* one call of search_relevant_text
    texts, cosine_of, top_indices, ranked, rank_pc,
    \* one call of extract_ev_ebitda_median
    tables, metric, extract_pc

request_vars == <<industry, pc, document, paragraphs, summaries, key_ix,
                  relevant_text, log, replies, response>>
rank_vars == <<texts, cosine_of, top_indices, ranked, rank_pc>>
extract_vars == <<tables, metric, extract_pc>>
vars == <<request_vars, rank_vars, extract_vars>>

----------------------------------------------------------------------------
\* Bounds of the model.

\* longest paragraph list handed to search_relevant_text
MaxParas == 4
\* similarity scores are 0..MaxSim (a discretisation of the cosine in [0, 1])
MaxSim == 1
\* most rows a document's tables hold together
MaxRows == 3
\* longest cell text enumerated character by character
MaxCellLen == 5

----------------------------------------------------------------------------
\* Python values.

\* Python's None, as a text no cell or pattern match can equal
None == <<"None">>

Min(S) == CHOOSE x \in S : \A y \in S : x <= y
Max(S) == CHOOSE x \in S : \A y \in S : x >= y

Whitespace == {" "}
Digits == {"0", "1", "2", "3", "4", "5", "6", "7", "8", "9"}

\* str.strip() without the call, a faulty variant of strip
strip_omitted(s) == s

\* str.strip(): drop leading and trailing whitespace
RECURSIVE strip(_)
strip(s) ==
    IF s = <<>> THEN s
    ELSE IF Head(s) \in Whitespace THEN strip(Tail(s))
    ELSE IF s[Len(s)] \in Whitespace THEN strip(SubSeq(s, 1, Len(s) - 1))
    ELSE s

\* Python's `sub in s` on strings
Contains(sub, s) ==
    \E i \in 0..(Len(s) - Len(sub)) : SubSeq(s, i + 1, i + Len(sub)) = sub

----------------------------------------------------------------------------
\* extract_ev_ebitda_median: the pattern (\d{1,3}(?:\.\d+)?)<Bai>

Bai == "B"
MedianLabel == <<"m", "e", "d">>
\* the 3 of \d{1,3}
MaxIntDigits == 3

\* how many digits stand at s[i], s[i+1], ...
RECURSIVE DigitRun(_, _)
DigitRun(s, i) ==
    IF i <= Len(s) /\ s[i] \in Digits THEN 1 + DigitRun(s, i + 1) ELSE 0

BaiAt(s, j) == j <= Len(s) /\ s[j] = Bai

\* The rest of the pattern from position j, after the integer digits: the
\* optional group (?:\.\d+)? is tried first, greedily, then skipped.  The
\* index of the matched Bai, or 0 when the rest does not match.
TailMatch(s, j) ==
    LET d == IF j <= Len(s) /\ s[j] = "." THEN DigitRun(s, j + 1) ELSE 0
        ms == {m \in 1..d : BaiAt(s, j + 1 + m)}
    IN  IF ms # {} THEN j + 1 + Max(ms)
        ELSE IF BaiAt(s, j) THEN j
        ELSE 0

\* \d{1,3} turned into \d+, a faulty variant of IntDigitCounts
IntDigitCountsUnbounded(s, i) == 1..DigitRun(s, i)

\* the digit counts \d{1,3} may take at position i
IntDigitCounts(s, i) == {k \in 1..MaxIntDigits : k <= DigitRun(s, i)}

\* A match attempt anchored at i: \d{1,3} is greedy, so the longest digit
\* count whose rest matches wins.  The index of the matched Bai, or 0.
MatchAt(s, i) ==
    LET ks == {k \in IntDigitCounts(s, i) : TailMatch(s, i + k) # 0}
    IN  IF ks = {} THEN 0 ELSE TailMatch(s, i + Max(ks))

\* pattern.search(s) and match.group(0): the match at the leftmost position
\* where one exists, None when there is none
PatternSearch(s) ==
    LET starts == {i \in 1..Len(s) : MatchAt(s, i) # 0}
    IN  IF starts = {} THEN None
        ELSE SubSeq(s, Min(starts), MatchAt(s, Min(starts)))

\* cells = [cell.text.strip() for cell in row.cells]
CellsOf(row) == [i \in 1..Len(row) |-> strip(row[i])]

\* the body of the row loop: None, or the value the function returns here
RowMatch(row) ==
    LET cells == CellsOf(row)
    IN  IF Contains(MedianLabel, cells[1])
        THEN PatternSearch(cells[Len(cells)])
        ELSE None

\* for row_index, row in enumerate(table.rows), from row r on
RECURSIVE ScanRows(_, _)
ScanRows(table, r) ==
    IF r > Len(table) THEN None
    ELSE IF RowMatch(table[r]) # None THEN RowMatch(table[r])
    ELSE ScanRows(table, r + 1)

\* the scan without the early return: the last qualifying row wins, a
\* faulty variant of ScanTables
RECURSIVE ScanTablesLastWins(_, _)
ScanTablesLastWins(tbls, t) ==
    IF t > Len(tbls) THEN None
    ELSE IF ScanTablesLastWins(tbls, t + 1) # None
         THEN ScanTablesLastWins(tbls, t + 1)
    ELSE ScanRows(tbls[t], 1)

\* for table_index, table in enumerate(document.tables), from table t on
RECURSIVE ScanTables(_, _)
ScanTables(tbls, t) ==
    IF t > Len(tbls) THEN None
    ELSE IF ScanRows(tbls[t], 1) # None THEN ScanRows(tbls[t], 1)
    ELSE ScanTables(tbls, t + 1)

extract_ev_ebitda_median(doc) == ScanTables(doc.tables, 1)

----------------------------------------------------------------------------
\* One call of extract_ev_ebitda_median on an input document.

\* rows as python-docx hands them over: cell texts before strip()
RowMed7 == << <<" ", "m", "e", "d", " ">>, <<"7", "B">> >>
RowMed9 == << <<"m", "e", "d", "(", "n", ")">>, <<"-">>, <<" ", "9", "B", " ">> >>
RowMedNone == << <<"m", "e", "d">>, <<"n", "/", "a">> >>
RowAvg5 == << <<"a", "v", "g">>, <<"5", "B">> >>
RowSingle == << <<"m", "e", "d", " ", "8", ".", "4", "B">> >>
RowPool == {RowMed7, RowMed9, RowMedNone, RowAvg5, RowSingle}

\* every list of non-empty tables over RowPool holding at most n rows
RECURSIVE TablesUpTo(_)
TablesUpTo(n) ==
    {<<>>} \cup
    UNION {{<<t>> \o rest : t \in [1..k -> RowPool], rest \in TablesUpTo(n - k)} :
           k \in 1..n}

CellAlphabet == {"1", "2", ".", ",", Bai}
CellTexts == UNION {[1..k -> CellAlphabet] : k \in 0..MaxCellLen}
Cell1234 == <<"1", "2", "3", "4", Bai>>
Cell1234p5 == <<"1", ",", "2", "3", "4", ".", "5", Bai>>
CellSpaced == <<"8", ".", "4", " ", Bai>>
Cell12p3 == <<" ", "1", "2", ".", "3", Bai>>
ExampleCells == {Cell1234, Cell1234p5, CellSpaced, Cell12p3}

\* the document of one table with one median-labelled row ending in cell
PatternDoc(cell) == << << <<MedianLabel, cell>> >> >>

InputTables ==
    TablesUpTo(MaxRows) \cup {PatternDoc(c) : c \in CellTexts \cup ExampleCells}

RankIdle ==
    /\ texts = <<>> /\ cosine_of = <<>> /\ top_indices = <<>>
    /\ ranked = <<>> /\ rank_pc = "idle"

ExtractIdle == tables = <<>> /\ metric = None /\ extract_pc = "idle"

RequestIdle ==
    /\ industry = <<>> /\ pc = <<>> /\ document = <<>> /\ paragraphs = <<>>
    /\ summaries = <<>> /\ key_ix = <<>> /\ relevant_text = <<>>
    /\ log = <<>> /\ replies = <<>> /\ response = <<>>

InitExtract ==
    /\ tables \in InputTables
    /\ metric = None
    /\ extract_pc = "call"
    /\ RankIdle /\ RequestIdle

ExtractCall ==
    /\ extract_pc = "call"
    /\ metric' = extract_ev_ebitda_median([tables |-> tables])
    /\ extract_pc' = "returned"
    /\ UNCHANGED <<tables, rank_vars, request_vars>>

NextExtract == ExtractCall

SpecExtract == InitExtract /\ [][NextExtract]_vars

----------------------------------------------------------------------------
\* Claims about extract_ev_ebitda_median.

\* (table, row) positions of the input, and document order on them
Positions ==
    UNION {{<<t, r>> : r \in 1..Len(tables[t])} : t \in 1..Len(tables)}
RowAt(p) == tables[p[1]][p[2]]
Before(p, q) == p[1] < q[1] \/ (p[1] = q[1] /\ p[2] < q[2])
FirstCell(row) == strip(row[1])
LastCell(row) == strip(row[Len(row)])
Qualifies(row) ==
    /\ Contains(MedianLabel, FirstCell(row))
    /\ PatternSearch(LastCell(row)) # None
QualifyingPositions == {p \in Positions : Qualifies(RowAt(p))}

\* C4: the value returned is the pattern match of the first row, in table
\* order and then row order, whose first cell contains the median label and
\* whose last cell has a pattern match; it is None exactly when no row of any
\* table has both (so also for zero tables).
C4_FirstQualifyingRow ==
    extract_pc = "returned" =>
        IF QualifyingPositions = {} THEN metric = None
        ELSE \E p \in QualifyingPositions :
                /\ \A q \in QualifyingPositions : q = p \/ Before(p, q)
                /\ metric = PatternSearch(LastCell(RowAt(p)))
                /\ metric # None

\* C4 witness: a median row without a match, then table A with 7B before
\* table B with 9B: 7B is returned.
C4_Witness ==
    /\ extract_pc = "returned"
    /\ tables = << <<RowMedNone, RowMed7>>, <<RowMed9>> >>
    /\ metric = <<"7", Bai>>

AllDigits(t) == \A i \in 1..Len(t) : t[i] \in Digits

\* t is 1 to 3 digits, optionally "." and one or more digits, then Bai
IsMultiple(t) ==
    /\ Len(t) >= 2
    /\ t[Len(t)] = Bai
    /\ LET num == SubSeq(t, 1, Len(t) - 1)
       IN  \/ AllDigits(num) /\ Len(num) <= 3
           \/ \E p \in 2..(Len(num) - 1) :
                /\ num[p] = "."
                /\ p - 1 <= 3
                /\ AllDigits(SubSeq(num, 1, p - 1))
                /\ AllDigits(SubSeq(num, p + 1, Len(num)))

Occurrences(s) ==
    {o \in (1..Len(s)) \X (1..Len(s)) :
        o[1] <= o[2] /\ IsMultiple(SubSeq(s, o[1], o[2]))}

\* t is the substring of s of that form that starts leftmost
IsLeftmostMultiple(t, s) ==
    \E o \in Occurrences(s) :
        /\ t = SubSeq(s, o[1], o[2])
        /\ \A q \in Occurrences(s) : o[1] <= q[1]

\* no Bai of s stands right after a digit
NoDigitBeforeBai(s) ==
    \A j \in 1..Len(s) : s[j] = Bai => (j = 1 \/ s[j - 1] \notin Digits)

----------------------------------------------------------------------------
\* search_relevant_text.  TfidfVectorizer and cosine_similarity are library
\* calls: what they give for a query is taken as an input, cosine_of, the
\* similarity to the query of each paragraph text (equal texts score equal).

ParaTexts == {"p", "q", "s"}
\* the 3 of [-3:]
TopK == 3

\* cosine_similarities = cosine_similarity(vectors[0:1], vectors[1:]).flatten()
cosine_similarities(txts, cos) == [i \in 1..Len(txts) |-> cos[txts[i]]]

\* Every order of the indices S that sorts sims ascending.
RECURSIVE AscendingOrders(_, _)
AscendingOrders(sims, S) ==
    IF S = {} THEN {<<>>}
    ELSE UNION {{<<i>> \o rest : rest \in AscendingOrders(sims, S \ {i})} :
                i \in {j \in S : \A k \in S : sims[j] <= sims[k]}}

\* ndarray.argsort(): numpy's default kind is not a stable sort, so among
\* equal scores any index order may come back
argsort(sims) == AscendingOrders(sims, DOMAIN sims)

\* [:3], the first three instead of the last, a faulty variant of LastK
FirstK(order) == SubSeq(order, 1, Min({TopK, Len(order)}))

\* [-3:]
LastK(order) == SubSeq(order, Max({1, Len(order) - TopK + 1}), Len(order))

\* [::-1]
Reversed(seq) == [i \in 1..Len(seq) |-> seq[Len(seq) + 1 - i]]

\* the slice [-3:] left out, a faulty variant of TopIndices
TopIndicesUnsliced(order) == Reversed(order)

\* top_indices = cosine_similarities.argsort()[-3:][::-1], given the argsort
TopIndices(order) == Reversed(LastK(order))

\* [texts[i] for i in top_indices]
Pick(txts, idx) == [k \in 1..Len(idx) |-> txts[idx[k]]]

\* the lists search_relevant_text may return
search_relevant_text(txts, cos) ==
    {Pick(txts, TopIndices(order)) : order \in argsort(cosine_similarities(txts, cos))}

InitRank ==
    /\ texts \in UNION {[1..n -> ParaTexts] : n \in 1..MaxParas}
    /\ cosine_of \in [ParaTexts -> 0..MaxSim]
    /\ top_indices = <<>>
    /\ ranked = <<>>
    /\ rank_pc = "call"
    /\ ExtractIdle /\ RequestIdle

RankCall ==
    /\ rank_pc = "call"
    /\ \E order \in argsort(cosine_similarities(texts, cosine_of)) :
          /\ top_indices' = TopIndices(order)
          /\ ranked' = Pick(texts, TopIndices(order))
    /\ rank_pc' = "returned"
    /\ UNCHANGED <<texts, cosine_of, extract_vars, request_vars>>

NextRank == RankCall

SpecRank == InitRank /\ [][NextRank]_vars

----------------------------------------------------------------------------
\* Claims about search_relevant_text.

SimAt(i) == cosine_of[texts[i]]
Selected == {top_indices[k] : k \in 1..Len(top_indices)}

\* C5: the list returned has min(3, n) items, each the text at its own
\* position of the input, no position taken twice.
C5_TopThreeDistinctPositions ==
    rank_pc = "returned" =>
        /\ Len(ranked) = Min({3, Len(texts)})
        /\ Len(top_indices) = Len(ranked)
        /\ \A k \in 1..Len(ranked) :
              /\ top_indices[k] \in 1..Len(texts)
              /\ ranked[k] = texts[top_indices[k]]
        /\ \A k, l \in 1..Len(ranked) :
              top_indices[k] = top_indices[l] => k = l

\* C5 witness: four paragraphs went in and three came back.
C5_Witness ==
    /\ rank_pc = "returned"
    /\ Len(texts) = 4
    /\ Len(ranked) = 3

\* where index i stands when the indices are ordered by descending score and,
\* among equal scores, by original position
StablePlace(i) ==
    1 + Cardinality({j \in 1..Len(texts) :
                        SimAt(j) > SimAt(i) \/ (SimAt(j) = SimAt(i) /\ j < i)})
StableTop ==
    [k \in 1..Min({3, Len(texts)}) |->
        CHOOSE i \in 1..Len(texts) : StablePlace(i) = k]

\* C6 as claimed: the list is the top three by descending similarity with
\* equal scores in original paragraph order, the earlier paragraph preferred.
C6_TiesInOriginalOrder ==
    rank_pc = "returned" => ranked = Pick(texts, StableTop)

\* C6 as amended: the list is in descending order of similarity and no
\* paragraph left out scores higher than one returned; the order among equal
\* scores is not fixed.
C6_DescendingTopScores ==
    rank_pc = "returned" =>
        /\ \A k \in 1..(Len(top_indices) - 1) :
              SimAt(top_indices[k]) >= SimAt(top_indices[k + 1])
        /\ \A i \in (1..Len(texts)) \ Selected :
              \A j \in Selected : SimAt(i) <= SimAt(j)
        /\ ranked = Pick(texts, top_indices)

\* C6 witness: four distinct-position paragraphs that all score zero came
\* back as the last three in reverse order.
C6_Witness ==
    /\ rank_pc = "returned"
    /\ texts = <<"p", "q", "s", "p">>
    /\ \A t \in ParaTexts : cosine_of[t] = 0
    /\ top_indices = <<4, 3, 2>>
    /\ ranked = <<"p", "s", "q">>

----------------------------------------------------------------------------
\* summarize_preset_file: the environment of a request.

Requests == {"r1", "r2"}

\* industry is None: the query parameter was not given
Absent == "<absent>"
Industries == {"retail", "logistics", "ghost"}

\* os.path.exists(f"app/{industry}.docx")
OnDisk == {"retail", "logistics"}

NoDocument == [paragraphs |-> <<>>, tables |-> <<>>]

\* Document(file_path): retail has a median row with 12.3B, a blank
\* paragraph and two paragraphs of text; logistics has one paragraph and no
\* median row
DocumentOf(ind) ==
    CASE ind = "retail" ->
            [paragraphs |-> << <<"p">>, <<" ">>, <<"q">> >>,
             tables |-> << <<RowAvg5>>, <<RowMedNone, <<MedianLabel, Cell12p3>> >> >>]
      [] ind = "logistics" ->
            [paragraphs |-> << <<"p">> >>,
             tables |-> << <<RowAvg5>> >>]
      [] OTHER -> NoDocument

\* the keys of queries, in the order the dict literal lists them, swapped: a
\* faulty variant of TopicOrder
TopicOrderSwapped ==
    <<"future_outlook", "current_situation", "investment_advantages",
      "investment_disadvantages", "value_up_hypothesis">>

\* the keys of queries, in the order queries.items() yields them
TopicOrder ==
    <<"current_situation", "future_outlook", "investment_advantages",
      "investment_disadvantages", "value_up_hypothesis">>

\* summaries as initialised: every key at ""
EmptySummaries ==
    [k \in {TopicOrder[i] : i \in 1..Len(TopicOrder)} |-> <<>>]

\* What openai.ChatCompletion.create may do: return a message content, or
\* raise an OpenAIError with a message.
Replies ==
    {[ok |-> TRUE, text |-> <<" ", "A", " ">>],
     [ok |-> TRUE, text |-> <<"B">>],
     [ok |-> FALSE, text |-> <<"quota exceeded">>]}

\* the detail texts of the handler, in English
MissingIndustryDetail == <<"no report shown: give an industry name">>
FileNotFoundDetail == <<"the given file was not found">>
MetricNotFoundDetail == <<"the EV/EBITDA median was not found">>
OpenAIPrefix == "OpenAI API error: "

NoResponse == [status |-> 0, detail |-> <<>>, body |-> <<>>]

\* the classes an exception of each type is an instance of
ClassesOf(type) ==
    CASE type = "HTTPException" -> {"HTTPException", "Exception"}
      [] type = "OpenAIError" -> {"OpenAIError", "Exception"}
      [] type = "FileNotFoundError" -> {"FileNotFoundError", "OSError", "Exception"}
      [] OTHER -> {"Exception"}

HTTPException(status, detail) ==
    [type |-> "HTTPException", status |-> status, detail |-> detail]
OpenAIError(message) ==
    [type |-> "OpenAIError", status |-> 0, detail |-> message]

StatusText(n) ==
    CASE n = 400 -> "400" [] n = 404 -> "404" [] n = 500 -> "500" [] OTHER -> "0"

\* str(e)
StrOf(exc) ==
    IF exc.type = "HTTPException"
    THEN <<StatusText(exc.status), ": ">> \o exc.detail
    ELSE exc.detail

\* the except clauses with `except Exception` moved to the top, a faulty variant
\* of HandleException
HandleExceptionGenericFirst(exc) ==
    [status |-> 500, detail |-> StrOf(exc), body |-> <<>>]

\* The except clauses of the try block, in their order: FileNotFoundError,
\* openai.error.OpenAIError, Exception.  The response an exception raised
\* inside the try block ends in.
HandleException(exc) ==
    IF "FileNotFoundError" \in ClassesOf(exc.type)
    THEN [status |-> 404, detail |-> FileNotFoundDetail, body |-> <<>>]
    ELSE IF "OpenAIError" \in ClassesOf(exc.type)
    THEN [status |-> 500, detail |-> <<OpenAIPrefix>> \o StrOf(exc), body |-> <<>>]
    ELSE [status |-> 500, detail |-> StrOf(exc), body |-> <<>>]

\* [paragraph.text for paragraph in document.paragraphs if paragraph.text.strip()]
RECURSIVE NonBlank(_)
NonBlank(ps) ==
    IF ps = <<>> THEN <<>>
    ELSE IF strip(Head(ps)) # <<>> THEN <<Head(ps)>> \o NonBlank(Tail(ps))
    ELSE NonBlank(Tail(ps))

\* "\n".join(relevant_paragraphs)
RECURSIVE JoinLines(_)
JoinLines(ps) ==
    IF ps = <<>> THEN <<>>
    ELSE IF Len(ps) = 1 THEN ps[1]
    ELSE ps[1] \o <<"\n">> \o JoinLines(Tail(ps))

Range(f) == {f[i] : i \in DOMAIN f}

\* the dict the handler returns, as its key/value pairs in order
ResultRecord(sums, median) ==
    [i \in 1..(Len(TopicOrder) + 1) |->
        IF i <= Len(TopicOrder) THEN <<TopicOrder[i], sums[TopicOrder[i]]>>
        ELSE <<"ev_ebitda_median", median>>]

\* one summaries dict at module level, shared by the requests: a faulty variant of
\* SummariesOf
SummariesShared(r) == "r1"

\* summaries is a local of the handler: each request has its own dict
SummariesOf(r) == r

----------------------------------------------------------------------------
\* summarize_preset_file: the steps of a request.

Init ==
    /\ industry \in [Requests -> Industries \cup {Absent}]
    /\ pc = [r \in Requests |-> "start"]
    /\ document = [r \in Requests |-> NoDocument]
    /\ paragraphs = [r \in Requests |-> <<>>]
    /\ summaries = [r \in Requests |-> EmptySummaries]
    /\ key_ix = [r \in Requests |-> 0]
    /\ relevant_text = [r \in Requests |-> <<>>]
    /\ log = [r \in Requests |-> <<>>]
    /\ replies = [r \in Requests |-> <<>>]
    /\ response = [r \in Requests |-> NoResponse]
    /\ RankIdle /\ ExtractIdle

\* The handler is left, by return or by raise, with response resp: its
\* locals are gone.
Leave(r, resp) ==
    /\ response' = [response EXCEPT ![r] = resp]
    /\ pc' = [pc EXCEPT ![r] = "done"]
    /\ document' = [document EXCEPT ![r] = NoDocument]
    /\ paragraphs' = [paragraphs EXCEPT ![r] = <<>>]
    /\ summaries' = [summaries EXCEPT ![SummariesOf(r)] = EmptySummaries]
    /\ key_ix' = [key_ix EXCEPT ![r] = 0]
    /\ relevant_text' = [relevant_text EXCEPT ![r] = <<>>]

\* the check of industry left out, a faulty variant of Receive
ReceiveUnchecked(r) ==
    /\ pc[r] = "start"
    /\ UNCHANGED <<rank_vars, extract_vars>>
    /\ pc' = [pc EXCEPT ![r] = "check_file"]
    /\ UNCHANGED <<industry, document, paragraphs, summaries, key_ix,
                   relevant_text, log, replies, response>>

\* if industry is None: raise HTTPException(400), outside the try block
Receive(r) ==
    /\ pc[r] = "start"
    /\ UNCHANGED <<rank_vars, extract_vars>>
    /\ IF industry[r] = Absent
       THEN /\ Leave(r, [status |-> 400, detail |-> MissingIndustryDetail,
                         body |-> <<>>])
            /\ UNCHANGED <<industry, log, replies>>
       ELSE /\ pc' = [pc EXCEPT ![r] = "check_file"]
            /\ UNCHANGED <<industry, document, paragraphs, summaries, key_ix,
                           relevant_text, log, replies, response>>

\* if not os.path.exists(file_path): raise HTTPException(404), inside the try
CheckFile(r) ==
    /\ pc[r] = "check_file"
    /\ UNCHANGED <<rank_vars, extract_vars>>
    /\ log' = [log EXCEPT ![r] = Append(@, <<"exists">>)]
    /\ IF industry[r] \notin OnDisk
       THEN /\ Leave(r, HandleException(HTTPException(404, FileNotFoundDetail)))
            /\ UNCHANGED <<industry, replies>>
       ELSE /\ pc' = [pc EXCEPT ![r] = "load"]
            /\ UNCHANGED <<industry, document, paragraphs, summaries, key_ix,
                           relevant_text, replies, response>>

\* document = Document(file_path); paragraphs; queries; summaries
LoadDocument(r) ==
    /\ pc[r] = "load"
    /\ UNCHANGED <<rank_vars, extract_vars>>
    /\ log' = [log EXCEPT ![r] = Append(@, <<"load">>)]
    /\ document' = [document EXCEPT ![r] = DocumentOf(industry[r])]
    /\ paragraphs' = [paragraphs EXCEPT ![r] = NonBlank(DocumentOf(industry[r]).paragraphs)]
    /\ summaries' = [summaries EXCEPT ![SummariesOf(r)] = EmptySummaries]
    /\ key_ix' = [key_ix EXCEPT ![r] = 1]
    /\ pc' = [pc EXCEPT ![r] = "summarize"]
    /\ UNCHANGED <<industry, relevant_text, replies, response>>

\* one pass of `for key, query in queries.items()`
SummarizeTopic(r) ==
    /\ pc[r] = "summarize"
    /\ UNCHANGED <<rank_vars, extract_vars>>
    /\ \E cos \in [Range(paragraphs[r]) -> 0..MaxSim] :
       \E relevant_paragraphs \in search_relevant_text(paragraphs[r], cos) :
       \E reply \in Replies :
          LET key == TopicOrder[key_ix[r]]
          IN  /\ log' = [log EXCEPT ![r] = Append(@, <<"call", key>>)]
              /\ replies' = [replies EXCEPT ![r] = Append(@, reply)]
              /\ IF reply.ok
                 THEN /\ summaries' = [summaries EXCEPT
                                         ![SummariesOf(r)][key] = strip(reply.text)]
                      /\ relevant_text' = [relevant_text EXCEPT
                                             ![r] = JoinLines(relevant_paragraphs)]
                      /\ IF key_ix[r] = Len(TopicOrder)
                         THEN pc' = [pc EXCEPT ![r] = "extract"]
                         ELSE pc' = pc
                      /\ key_ix' = [key_ix EXCEPT ![r] = @ + 1]
                      /\ UNCHANGED <<industry, document, paragraphs, response>>
                 ELSE /\ Leave(r, HandleException(OpenAIError(reply.text)))
                      /\ UNCHANGED industry

\* ev_ebitda_median = extract_ev_ebitda_median(document); raise 404 or return
ExtractMetric(r) ==
    /\ pc[r] = "extract"
    /\ UNCHANGED <<rank_vars, extract_vars>>
    /\ log' = [log EXCEPT ![r] = Append(@, <<"extract">>)]
    /\ LET ev_ebitda_median == extract_ev_ebitda_median(document[r])
       IN  IF ev_ebitda_median = None
           THEN Leave(r, HandleException(HTTPException(404, MetricNotFoundDetail)))
           ELSE Leave(r, [status |-> 200, detail |-> <<>>,
                          body |-> ResultRecord(summaries[SummariesOf(r)],
                                                ev_ebitda_median)])
    /\ UNCHANGED <<industry, replies>>

Next ==
    \E r \in Requests :
        \/ Receive(r)
        \/ CheckFile(r)
        \/ LoadDocument(r)
        \/ SummarizeTopic(r)
        \/ ExtractMetric(r)

Spec == Init /\ [][Next]_vars

----------------------------------------------------------------------------
\* Claims about summarize_preset_file.

Done(r) == pc[r] = "done"
AllOk(r) == \A k \in 1..Len(replies[r]) : replies[r][k].ok
Calls(r) == {i \in 1..Len(log[r]) : log[r][i][1] = "call"}
Logged(r, what) == \E i \in 1..Len(log[r]) : log[r][i] = <<what>>

\* the request got all five summaries and its document has no median value
MetricMissing(r) ==
    /\ industry[r] \in OnDisk
    /\ Len(replies[r]) = 5 /\ AllOk(r)
    /\ extract_ev_ebitda_median(DocumentOf(industry[r])) = None

\* C1 as claimed: a request whose identifier names no file, or whose document
\* has no median value after five summaries, ends with status 404 and the
\* detail of the missing file or the missing metric, never with 500.
C1_NotFoundStatus ==
    \A r \in Requests :
        Done(r) /\ industry[r] # Absent =>
            /\ industry[r] \notin OnDisk =>
                  /\ response[r].status = 404
                  /\ response[r].detail = FileNotFoundDetail
            /\ MetricMissing(r) =>
                  /\ response[r].status = 404
                  /\ response[r].detail = MetricNotFoundDetail

\* C2: a failed summarization call is the last call of its request: the
\* request is over, nothing was called after it or again, the extractor did
\* not run, no summary is returned, and the response is 500 with the
\* summarization-service prefix followed by the collaborator's message, a
\* detail no other failure has.
C2_SummarizationFailureAborts ==
    \A r \in Requests :
        /\ \A k \in 1..Len(replies[r]) :
              ~replies[r][k].ok =>
                 /\ k = Len(replies[r])
                 /\ Done(r)
                 /\ Cardinality(Calls(r)) = k
                 /\ \A i, j \in Calls(r) : log[r][i] = log[r][j] => i = j
                 /\ ~Logged(r, "extract")
                 /\ response[r].status = 500
                 /\ response[r].detail = <<"OpenAI API error: ">> \o replies[r][k].text
                 /\ response[r].body = <<>>
        /\ Done(r) /\ AllOk(r) /\ response[r].detail # <<>> =>
              response[r].detail[1] # "OpenAI API error: "

\* C2 witness: the third call failed and the request ended in 500.
C2_Witness ==
    \E r \in Requests :
        /\ Len(replies[r]) = 3
        /\ ~replies[r][3].ok
        /\ Done(r)
        /\ response[r].status = 500

\* t is s without its leading and trailing whitespace
IsTrimOf(t, s) ==
    /\ \A i \in 1..Len(t) : i \in {1, Len(t)} => t[i] \notin Whitespace
    /\ \E a, b \in 0..Len(s) :
          /\ a + Len(t) + b = Len(s)
          /\ t = SubSeq(s, a + 1, a + Len(t))
          /\ \A i \in 1..Len(s) : (i <= a \/ i > a + Len(t)) => s[i] \in Whitespace

ResultKeys ==
    <<"current_situation", "future_outlook", "investment_advantages",
      "investment_disadvantages", "value_up_hypothesis", "ev_ebitda_median">>

\* the response is a full Result Record of request r
FullRecord(r) ==
    /\ response[r].status = 200
    /\ Len(response[r].body) = 6
    /\ \A i \in 1..6 : response[r].body[i][1] = ResultKeys[i]
    /\ Len(replies[r]) = 5 /\ AllOk(r)
    /\ \A i \in 1..5 : IsTrimOf(response[r].body[i][2], replies[r][i].text)
    /\ response[r].body[6][2] # None
    /\ response[r].body[6][2] = extract_ev_ebitda_median(DocumentOf(industry[r]))

\* the response is a failure that carries nothing
BareFailure(r) ==
    /\ response[r].status \in {400, 404, 500}
    /\ response[r].body = <<>>

\* C3: a request that is over has returned either the six-field record, each
\* topic field the trimmed response of its own call and the metric not None,
\* or a failure without summaries or metric; before that it has returned
\* nothing.
C3_FullRecordOrFailure ==
    \A r \in Requests :
        IF Done(r)
        THEN (FullRecord(r) /\ ~BareFailure(r)) \/ (BareFailure(r) /\ ~FullRecord(r))
        ELSE response[r] = NoResponse

\* C3 witness: a record whose first field is the trimmed " A " and whose
\* metric is 12.3B.
C3_Witness ==
    \E r \in Requests :
        /\ Done(r)
        /\ response[r].status = 200
        /\ replies[r][1].text = <<" ", "A", " ">>
        /\ response[r].body[1] = <<"current_situation", <<"A">>>>
        /\ response[r].body[6] = <<"ev_ebitda_median", <<"1", "2", ".", "3", Bai>>>>

\* what belongs to request r
Local(r) ==
    <<industry[r], pc[r], document[r], paragraphs[r], summaries[r], key_ix[r],
      relevant_text[r], log[r], replies[r], response[r]>>

\* two finished requests with the same identifier (so the same document) and
\* the same collaborator replies have the same response
SameInSameOut ==
    \A r1, r2 \in Requests :
        /\ Done(r1) /\ Done(r2)
        /\ industry[r1] = industry[r2]
        /\ replies[r1] = replies[r2]
        => response[r1] = response[r2]

\* C7: no step changes what belongs to two requests, and whatever ran before,
\* after or in between, equal inputs give equal responses.
C7_RequestsIndependent ==
    [][/\ \A r1, r2 \in Requests :
             r1 # r2 => ~(Local(r1)' # Local(r1) /\ Local(r2)' # Local(r2))
       /\ SameInSameOut']_vars

\* C7 witness: two requests for retail, given the same replies, both returned
\* the same record.
C7_Witness ==
    /\ industry["r1"] = "retail" /\ industry["r2"] = "retail"
    /\ Done("r1") /\ Done("r2")
    /\ replies["r1"] = replies["r2"]
    /\ response["r1"].status = 200
    /\ response["r1"] = response["r2"]

\* C8: a request without industry does nothing but answer 400: no existence
\* check, no load, no summarization call, no extraction.
C8_MissingIndustryFirst ==
    \A r \in Requests :
        industry[r] = Absent =>
            /\ log[r] = <<>>
            /\ replies[r] = <<>>
            /\ pc[r] \in {"start", "done"}
            /\ Done(r) =>
                  /\ response[r].status = 400
                  /\ response[r].detail = MissingIndustryDetail
                  /\ response[r].body = <<>>

\* C8 witness: a request without industry has been answered.
C8_Witness ==
    \E r \in Requests :
        /\ industry[r] = Absent
        /\ Done(r)
        /\ response[r].status = 400

\* the steps of a request that runs to the end, in order
FullLog ==
    << <<"exists">>, <<"load">>,
       <<"call", "current_situation">>, <<"call", "future_outlook">>,
       <<"call", "investment_advantages">>, <<"call", "investment_disadvantages">>,
       <<"call", "value_up_hypothesis">>,
       <<"extract">> >>

\* C9: the steps taken by a request are an initial part of: existence check,
\* load, the five calls in topic order, extraction; each call has its reply
\* before the next step; extraction runs only with the five summaries stored;
\* a document without a median value gets the five calls before it fails.
C9_FixedLinearOrder ==
    \A r \in Requests :
        /\ Len(log[r]) <= Len(FullLog)
        /\ log[r] = SubSeq(FullLog, 1, Len(log[r]))
        /\ Len(replies[r]) = Cardinality(Calls(r))
        /\ pc[r] = "extract" \/ Logged(r, "extract") =>
              Len(replies[r]) = 5 /\ AllOk(r)
        /\ pc[r] = "extract" =>
              \A i \in 1..5 :
                 summaries[r][FullLog[i + 2][2]] = strip(replies[r][i].text)
        /\ Done(r) /\ industry[r] = "logistics" /\ AllOk(r) =>
              /\ log[r] = FullLog
              /\ response[r].status # 200

\* C9 witness: a request for logistics, whose document has no median row,
\* made the five calls, ran the extraction and failed.
C9_Witness ==
    \E r \in Requests :
        /\ industry[r] = "logistics"
        /\ Done(r)
        /\ log[r] = FullLog
        /\ response[r].status # 200

====
